---- MODULE Spec2Model ----
(***************************************************************************)
(* Verification model of the dispatch-and-cost engine battery_engine_pro3. *)
(*                                                                         *)
(* Number representation.  The Python code computes in floats; the model   *)
(* computes on a fixed-point grid of integers:                             *)
(*   - energies (kWh), powers (kW), prices and money are integers;         *)
(*   - dod and initial_soc_frac are given in tenths (10 = 1.0);            *)
(*   - eta (round trip) is given in hundredths (100 = 1.0), so that        *)
(*     eta ** 0.5 is the integer square root, in tenths;                   *)
(*   - dt_hours is given in quarters of an hour (4 = 1.0 h, 1 = 0.25 h);   *)
(*   - a product or quotient with a fraction is rounded down to the grid.  *)
(* None is the empty tuple and a present optional value x is <<x>>.        *)
(***************************************************************************)
EXTENDS Integers, Sequences, FiniteSets, TLC

VARIABLES
    \* ---- BatterySimulator object and the loop of simulate_with_battery
    sim_pc,          \* "off" | "ready" | "loop" | "done"
    sim_call,        \* the method that was called: "" until a call is made
    load,            \* self.load.values
    pv,              \* self.pv.values
    dt,              \* self.dt (quarters of an hour)
    battery,         \* self.battery: None or <<BatteryModel>>
    prices,          \* self.prices (None and [] are both <<>>)
    allow_grid_charge,
    i,               \* loop index (number of steps already simulated)
    soc,             \* local soc of simulate_with_battery
    import_p,        \* import profile built so far / returned
    export_p,
    soc_p,
    sim_result,      \* None or <<SimulationResult>>
    \* ---- PeakOptimizer.simulate_with_peak_shaving: arguments and locals
    peak_pc,         \* "off" | "loop" | "done"
    pk_load,         \* load.values
    pk_pv,           \* pv.values
    pk_months,       \* load.timestamps[t].month, 1..12
    pk_dt,           \* load.dt_hours (quarters of an hour)
    pk_battery,      \* battery (a BatteryModel)
    monthly_targets,
    soc_plan,        \* the argument: None or a list
    pk_t,            \* loop index t
    pk_soc,          \* local soc
    import_profile,
    export_profile,
    soc_profile,
    monthly_peaks_after,
    \* ---- CostEngine object and its last call of compute_cost
    cost_pc,         \* "off" | "ready" | "returned" | "raised"
    cfg,             \* self.cfg: None or <<TariffConfig>>
    cost_args,       \* arguments of the last call
    cost_result,     \* None or <<ScenarioResult>>
    \* ---- BatteryEnginePro3.compute and ScenarioRunner
    run_pc,          \* "off" | "start" | "computed" | "runner"
    input_data,      \* the ComputeV3Input
    runner,          \* None or <<the ScenarioRunner object>>
    run_outs,        \* what the calls of runner.run() returned, in order
    run_locals,      \* None or <<locals of the last run() at its return>>
    compute_out,     \* None or <<what compute(input_data) returned>>
    \* ---- construction of a BatteryModel
    batt_pc,         \* "off" | "new" | "constructed"
    batt_args,       \* None or <<the constructor arguments>>
    batt_model,      \* None or <<the BatteryModel after __post_init__>>
    \* ---- a call of ROIEngine.compute
    roi_pc,          \* "off" | "ready" | "loop" | "returned"
    roi_cfg,         \* None or <<the ROIConfig>>
    roi_year,        \* the loop variable year
    roi_total,       \* local total_savings
    roi_payback,     \* local payback: None or <<year>>
    roi_result,      \* None or <<ROIResult>>
    \* ---- compute_monthly_peaks and PeakShavingPlanner
    plan_pc,         \* "off" | "ready" | "peaks" | "planned"
    plan_args,       \* None or <<the series, the battery and the targets>>
    baseline_peaks,  \* None or <<what compute_monthly_peaks returned>>
    soc_min_curve    \* None or <<what plan_monthly_soc_targets returned>>

simVars == <<sim_pc, sim_call, load, pv, dt, battery, prices, allow_grid_charge,
             i, soc, import_p, export_p, soc_p, sim_result>>

peakVars == <<peak_pc, pk_load, pk_pv, pk_months, pk_dt, pk_battery,
              monthly_targets, soc_plan, pk_t, pk_soc, import_profile,
              export_profile, soc_profile, monthly_peaks_after>>

costVars == <<cost_pc, cfg, cost_args, cost_result>>

runVars == <<run_pc, input_data, runner, run_outs, run_locals, compute_out>>

battVars == <<batt_pc, batt_args, batt_model>>

roiVars == <<roi_pc, roi_cfg, roi_year, roi_total, roi_payback, roi_result>>

planVars == <<plan_pc, plan_args, baseline_peaks, soc_min_curve>>

vars == <<simVars, peakVars, costVars, runVars, battVars, roiVars, planVars>>

----------------------------------------------------------------------------
\* Bounds of the model

MaxLen == 2

\* values the input series are drawn from
LoadVals == {0, 3, 8}
PvVals == {0, 5}
PriceVals == {1, 3}

SeqsUpTo(S, n) == UNION {[1..k -> S] : k \in 0..n}
SeqsOfLen(S, k) == [1..k -> S]

----------------------------------------------------------------------------
\* Generic helpers (Python built-ins)

None == <<>>
Some(x) == <<x>>

Max2(a, b) == IF a >= b THEN a ELSE b
Min2(a, b) == IF a <= b THEN a ELSE b
Min3(a, b, c) == Min2(a, Min2(b, c))

RECURSIVE Sum(_)
Sum(s) == IF s = <<>> THEN 0 ELSE Head(s) + Sum(Tail(s))

\* integer square root (x ** 0.5 on the grid)
Isqrt(x) == CHOOSE r \in 0..x : r * r <= x /\ (r + 1) * (r + 1) > x

\* x * eta and x / eta for an efficiency eta given in tenths
MulEta(x, eta10) == (x * eta10) \div 10
DivEta(x, eta10) == (x * 10) \div eta10

\* x * dt for dt in quarters of an hour
MulDt(x, dt4) == (x * dt4) \div 4

----------------------------------------------------------------------------
\* battery_model.py

\* BatteryModel.__post_init__
\* dod after a lower clamp only
ClampDod_NoUpper(dod) == IF dod < 0 THEN 0 ELSE dod

\* lines 50-53: dod brought into 0..1
ClampDod(dod) == IF dod < 0 THEN 0 ELSE IF dod > 10 THEN 10 ELSE dod

\* only a negative eta is replaced: "<" for "<="
CleanEta_NegativeOnly(eta) == IF eta < 0 THEN 100 ELSE eta

\* lines 54-55: a non-positive eta becomes 1.0
CleanEta(eta) == IF eta <= 0 THEN 100 ELSE eta

BatteryModel(E_cap, P_max, dod, eta, initial_soc_frac) ==
    LET E == IF E_cap < 0 THEN 0 ELSE E_cap
        P == IF P_max < 0 THEN 0 ELSE P_max
        d == ClampDod(dod)
        e == CleanEta(eta)
        f == IF initial_soc_frac < 0 THEN 0
             ELSE IF initial_soc_frac > 10 THEN 10 ELSE initial_soc_frac
        Emax == E
        Emin == (E * (10 - d)) \div 10
    IN  [E_cap |-> E, P_max |-> P, dod |-> d, eta |-> e,
         initial_soc_frac |-> f,
         capacity_kwh |-> E, power_kw |-> P,
         eta_charge |-> Isqrt(e), eta_discharge |-> Isqrt(e),
         E_min |-> Emin, E_max |-> Emax,
         initial_soc_kwh |-> Emin + (f * (Emax - Emin)) \div 10]

\* constructor arguments <<E_cap, P_max, dod, eta, initial_soc_frac>> used
\* by the simulations: a lossy battery, an ideal full one, one whose
\* efficiency was entered above 1, and one with out-of-range arguments
BatteryArgs ==
    { <<20, 4, 5, 25, 5>>,
      <<20, 8, 10, 100, 10>>,
      <<20, 20, 5, 400, 5>>,
      <<-5, 3, 12, 0, -1>> }

Batteries == { BatteryModel(a[1], a[2], a[3], a[4], a[5]) : a \in BatteryArgs }

\* the batteries of a BatterySimulator: those, and an ideal battery that
\* starts at a fifth of its capacity
SimBatteries == Batteries \cup { BatteryModel(20, 8, 10, 100, 2) }

----------------------------------------------------------------------------
\* battery_simulator.py

\* reserve_frac = 0.20 and the 0.80 target of grid charging, in percent
reserve_frac == 20
target_frac == 80

\* BatterySimulator.__init__: the price percentiles P30 and P75
price_low(ps) ==
    IF Len(ps) > 0
    THEN Some(SortSeq(ps, LAMBDA a, b : a < b)[((30 * Len(ps)) \div 100) + 1])
    ELSE None

price_high(ps) ==
    IF Len(ps) > 0
    THEN Some(SortSeq(ps, LAMBDA a, b : a < b)[((75 * Len(ps)) \div 100) + 1])
    ELSE None

\* simulate_no_battery with the sign of the export test inverted
simulate_no_battery_SignSlip(ld, p, dt4) ==
    LET n == Min2(Len(ld), Len(p))
        imp == [t \in 1..n |-> Max2(0, ld[t] - p[t])]
        exp == [t \in 1..n |-> Max2(0, ld[t] - p[t])]
    IN  [import_kwh |-> Sum(imp), export_kwh |-> Sum(exp),
         import_profile |-> imp, export_profile |-> exp,
         soc_profile |-> [t \in 1..Len(ld) |-> 0],
         dt_hours |-> dt4]

\* BatterySimulator.simulate_no_battery
simulate_no_battery(ld, p, dt4) ==
    LET n == Min2(Len(ld), Len(p))
        imp == [t \in 1..n |-> Max2(0, ld[t] - p[t])]
        exp == [t \in 1..n |-> Max2(0, -(ld[t] - p[t]))]
    IN  [import_kwh |-> Sum(imp), export_kwh |-> Sum(exp),
         import_profile |-> imp, export_profile |-> exp,
         soc_profile |-> [t \in 1..Len(ld) |-> 0],
         dt_hours |-> dt4]

\* the loop body without its guardrail
ClampSoc_Missing(s, batt) == s

\* the numeric guardrail of the loop body: soc = min(max(soc, E_min), E_max)
ClampSoc(s, batt) == Min2(Max2(s, batt.E_min), batt.E_max)

\* the charge from the PV surplus without the limit of the surplus itself
PvCharge_NoSurplusLimit(batt, dt4, pv_surplus, s) ==
    Min2(MulDt(batt.P_max, dt4), batt.E_max - s)

\* lines 148-152: the energy taken from the PV surplus
PvCharge(batt, dt4, pv_surplus, s) ==
    Min3(pv_surplus, MulDt(batt.P_max, dt4), batt.E_max - s)

\* one iteration of the loop of simulate_with_battery, for step index k
\* (0-based), starting from state of charge s
SimStep(batt, dt4, ps, allow, k, s, load_kwh, pv_kwh) ==
    LET price == IF k < Len(ps) THEN Some(ps[k + 1]) ELSE None
        plow == price_low(ps)
        phigh == price_high(ps)
        E_reserve == batt.E_min
                     + (reserve_frac * (batt.E_max - batt.E_min)) \div 100
        load_remaining0 == Max2(0, load_kwh - pv_kwh)
        pv_surplus0 == Max2(0, pv_kwh - load_kwh)
        \* 2. discharge to the load
        allow_discharge ==
            ~ (/\ Len(ps) > 0 /\ price # None /\ phigh # None
               /\ price[1] < phigh[1]
               /\ s <= E_reserve)
        discharging == allow_discharge /\ load_remaining0 > 0 /\ s > E_reserve
        max_deliverable == Min2(MulDt(batt.P_max, dt4),
                                MulEta(s - batt.E_min, batt.eta_discharge))
        delivered == IF discharging THEN Min2(load_remaining0, max_deliverable)
                     ELSE 0
        soc1 == IF discharging THEN s - DivEta(delivered, batt.eta_discharge)
                ELSE s
        load_remaining == load_remaining0 - delivered
        \* 3. charge from the PV surplus
        charging == pv_surplus0 > 0 /\ soc1 < batt.E_max
        charge_pv == IF charging THEN PvCharge(batt, dt4, pv_surplus0, soc1)
                     ELSE 0
        soc2 == IF charging THEN soc1 + MulEta(charge_pv, batt.eta_charge)
                ELSE soc1
        pv_surplus == pv_surplus0 - charge_pv
        \* 4. price-driven charging from the grid
        target_soc == batt.E_min
                      + (target_frac * (batt.E_max - batt.E_min)) \div 100
        grid_charging ==
            /\ allow /\ price # None /\ plow # None
            /\ price[1] < plow[1]
            /\ soc2 < target_soc
        charge_grid == IF grid_charging
                       THEN Min2(MulDt(batt.P_max, dt4), target_soc - soc2)
                       ELSE 0
        soc3 == IF grid_charging
                THEN soc2 + MulEta(charge_grid, batt.eta_charge)
                ELSE soc2
    IN  [soc |-> ClampSoc(soc3, batt),
         import_kwh |-> charge_grid + load_remaining,
         export_kwh |-> pv_surplus,
         delivered |-> delivered,
         charge_pv |-> charge_pv,
         charge_grid |-> charge_grid]

\* the end of a loop iteration: soc and the three profiles after the
\* step's appends
SimAppend(acc, r) ==
    [soc |-> r.soc,
     import_profile |-> Append(acc.import_profile, r.import_kwh),
     export_profile |-> Append(acc.export_profile, r.export_kwh),
     soc_profile |-> Append(acc.soc_profile, r.soc)]

\* the whole loop of simulate_with_battery as a fold over the zipped series
RECURSIVE SimLoop(_, _, _, _, _, _, _, _)
SimLoop(batt, dt4, ps, allow, ld, p, k, acc) ==
    IF k >= Min2(Len(ld), Len(p)) THEN acc
    ELSE SimLoop(batt, dt4, ps, allow, ld, p, k + 1,
                 SimAppend(acc, SimStep(batt, dt4, ps, allow, k, acc.soc,
                                        ld[k + 1], p[k + 1])))

\* the SimulationResult returned after the loop
SimReturn(acc, dt4) ==
    [import_kwh |-> Sum(acc.import_profile),
     export_kwh |-> Sum(acc.export_profile),
     import_profile |-> acc.import_profile,
     export_profile |-> acc.export_profile,
     soc_profile |-> acc.soc_profile,
     dt_hours |-> dt4]

\* BatterySimulator.simulate_with_battery
simulate_with_battery(ld, p, dt4, batt, ps, allow) ==
    IF batt = None THEN simulate_no_battery(ld, p, dt4)
    ELSE SimReturn(SimLoop(batt[1], dt4, ps, allow, ld, p, 0,
                           [soc |-> batt[1].initial_soc_kwh,
                            import_profile |-> <<>>,
                            export_profile |-> <<>>,
                            soc_profile |-> <<>>]),
                   dt4)

----------------------------------------------------------------------------
\* peak_optimizer.py

\* values the soc_plan entries are drawn from: below E_min, inside the
\* usable range and above E_max of the batteries above
PlanVals == {0, 12, 30}

\* the monthly target lists: twelve entries, or a short list
TargetLists ==
    { <<6, 2, 0, 0, 0, 0, 0, 0, 0, 0, 0, 0>>,
      <<2, 7, 0, 0, 0, 0, 0, 0, 0, 0, 0, 0>>,
      <<4>> }

\* month lists of length n of a series that starts in January or February
\* and runs forward in time
MonthLists(n) ==
    { m \in [1..n -> {1, 2}] : \A a, b \in 1..n : a <= b => m[a] <= m[b] }

\* soc_plan lists of length n that change value at most once, as a plan by
\* month does over a series that runs from January into February
PlanLists(n) ==
    { sp \in SeqsOfLen(PlanVals, n) :
        \A a, b, c \in 1..n : (a < b /\ b < c) => (sp[a] = sp[b] \/ sp[b] = sp[c]) }

Zeros12 == [m \in 1..12 |-> 0]

\* PeakOptimizer.compute_monthly_peaks, its loop from step k (1-based) on
RECURSIVE MonthlyPeaksFrom(_, _, _, _, _)
MonthlyPeaksFrom(ld, p, months, k, peaks) ==
    IF k > Len(ld) THEN peaks
    ELSE LET net == ld[k] - p[k]
             net_kw == IF net < 0 THEN 0 ELSE net
             month == months[k] - 1
         IN  MonthlyPeaksFrom(ld, p, months, k + 1,
                 IF net_kw > peaks[month + 1]
                 THEN [peaks EXCEPT ![month + 1] = net_kw]
                 ELSE peaks)

compute_monthly_peaks(ld, p, months) ==
    MonthlyPeaksFrom(ld, p, months, 1, Zeros12)

\* PeakShavingPlanner.compute_required_reserve
compute_required_reserve(baseline_peak_kw, target_peak_kw, timestep_hours) ==
    MulDt(Max2(0, baseline_peak_kw - target_peak_kw), timestep_hours)

\* PeakShavingPlanner.plan_monthly_soc_targets: months are the months of
\* load.timestamps, 1..12; both peak lists have twelve entries
plan_monthly_soc_targets(ld, months, dt4, batt, base_peaks, target_peaks) ==
    [t \in 1..Len(ld) |->
        batt.E_min
        + compute_required_reserve(
              base_peaks[IF months[t] - 1 < 0 \/ months[t] - 1 > 11 THEN 1
                         ELSE months[t]],
              target_peaks[IF months[t] - 1 < 0 \/ months[t] - 1 > 11 THEN 1
                           ELSE months[t]],
              dt4)]

\* the lower bound of a shaving discharge without the planned reserve
LowerBound_EminOnly(E_min, soc_min_required) == E_min

\* line 137: the lower bound of a shaving discharge
LowerBound(E_min, soc_min_required) == Max2(E_min, soc_min_required)

\* the discharge that respects the planned reserve, without the floor at 0
LimitDischarge_NoFloor(s, discharge_kwh_from_batt, lower_bound) ==
    IF s - discharge_kwh_from_batt < lower_bound
    THEN s - lower_bound
    ELSE discharge_kwh_from_batt

\* lines 138-139: the discharge that respects the planned reserve
LimitDischarge(s, discharge_kwh_from_batt, lower_bound) ==
    IF s - discharge_kwh_from_batt < lower_bound
    THEN Max2(0, s - lower_bound)
    ELSE discharge_kwh_from_batt

\* the grid import of a shaved step with the battery's delivery added
\* instead of subtracted
GridImport_SignSlip(load_kw, pv_kw, real_kw) ==
    LET grid_kw == load_kw - pv_kw + real_kw
    IN  IF grid_kw < 0 THEN 0 ELSE grid_kw

\* lines 150-152: the grid import of a shaved step
GridImport(load_kw, pv_kw, real_kw) ==
    LET grid_kw == load_kw - pv_kw - real_kw
    IN  IF grid_kw < 0 THEN 0 ELSE grid_kw

\* a deficit below the target that is not imported
SmallDeficitImport_Zero(net_surplus_kw) == 0

\* lines 187-189: a deficit that is not above the target is imported
SmallDeficitImport(net_surplus_kw) == -net_surplus_kw

\* one iteration of the loop of simulate_with_peak_shaving: month1 is
\* ts[t].month, plan_t is soc_plan[t], s the state of charge before the step
PeakStep(batt, dt4, targets, plan_t, month1, s, load_kw, pv_kw) ==
    LET P == batt.power_kw
        eta_c == batt.eta_charge
        eta_d == batt.eta_discharge
        E_min == batt.E_min
        E_max == batt.E_max
        month == IF month1 - 1 < 0 \/ month1 - 1 > 11 THEN 0 ELSE month1 - 1
        target_peak == IF month < Len(targets) THEN targets[month + 1]
                       ELSE targets[1]
        net_kw == load_kw - pv_kw
        \* case 1: peak shaving
        required_kw == net_kw - target_peak
        discharge_kw == Min2(required_kw, P)
        discharge0 == IF eta_d > 0
                      THEN (discharge_kw * dt4 * 10) \div (4 * eta_d)
                      ELSE 0
        lower_bound == LowerBound(E_min, plan_t)
        discharge_kwh_from_batt == LimitDischarge(s, discharge0, lower_bound)
        real_kw == IF dt4 > 0
                   THEN (discharge_kwh_from_batt * eta_d * 4) \div (10 * dt4)
                   ELSE 0
        \* case 2: normal behaviour, charging from a PV surplus
        net_surplus_kw == pv_kw - load_kw
        charge_kw == Min2(net_surplus_kw, P)
        charge0 == (charge_kw * dt4 * eta_c) \div (4 * 10)
        charge_kwh == IF s + charge0 > E_max THEN Max2(0, E_max - s)
                      ELSE charge0
        used_kw_equiv == IF dt4 > 0 /\ eta_c > 0
                         THEN (charge_kwh * 4 * 10) \div (dt4 * eta_c)
                         ELSE 0
        export_kw == IF net_surplus_kw - used_kw_equiv < 0 THEN 0
                     ELSE net_surplus_kw - used_kw_equiv
    IN  IF net_kw > target_peak
        THEN [soc |-> s - discharge_kwh_from_batt,
              import |-> GridImport(load_kw, pv_kw, real_kw),
              export |-> 0, month |-> month]
        ELSE IF net_surplus_kw > 0
        THEN [soc |-> s + charge_kwh, import |-> 0, export |-> export_kw,
              month |-> month]
        ELSE [soc |-> s, import |-> SmallDeficitImport(net_surplus_kw),
              export |-> 0, month |-> month]

----------------------------------------------------------------------------
\* types.py and cost_engine.py
\* Prices are in cents per kWh and money is in cents.

\* TariffConfig objects: the prices of the test suite, with and without
\* feed-in fees, for both countries, with and without a price series
TariffConfigs ==
    { [country |-> c, current_tariff |-> ct,
       vastrecht_year |-> 10000,
       p_enkel_imp |-> 40, p_enkel_exp |-> 10,
       p_dag |-> 50, p_nacht |-> 30, p_exp_dn |-> 8,
       p_export_dyn |-> 12, dynamic_prices |-> dp,
       feedin_monthly_cost |-> f[1], feedin_cost_per_kwh |-> 0,
       feedin_free_kwh |-> f[2], feedin_price_after_free |-> f[3],
       inverter_power_kw |-> 5, inverter_cost_per_kw |-> 1000,
       capacity_tariff_kw |-> 5000,
       allow_grid_charge |-> FALSE, saldering |-> sal] :
         c \in {"NL", "BE"}, ct \in {"enkel"},
         dp \in {None, <<20, 60>>},
         f \in {<<0, 0, 0>>, <<200, 30, 5>>},
         sal \in BOOLEAN }

TariffTypes == {"enkel", "dag_nacht", "dynamisch", "piek"}

\* the energy term with the export credited at the import price
EnergyNet_ExportAtImportPrice(c, tariff_type, total_import_kwh, total_export_kwh) ==
    total_import_kwh * c.p_enkel_imp - total_export_kwh * c.p_enkel_imp

\* lines 42-67: cost_energy - revenue_energy of a known tariff type
EnergyNet(c, tariff_type, total_import_kwh, total_export_kwh) ==
    IF tariff_type = "enkel"
    THEN total_import_kwh * c.p_enkel_imp - total_export_kwh * c.p_enkel_exp
    ELSE IF tariff_type = "dag_nacht"
    THEN LET average_price == (5 * c.p_dag) \div 10 + (5 * c.p_nacht) \div 10
         IN  total_import_kwh * average_price - total_export_kwh * c.p_exp_dn
    ELSE LET ps == c.dynamic_prices
             dyn_price_avg == IF ps = None \/ Len(ps) = 0 THEN c.p_enkel_imp
                              ELSE Sum(ps) \div Len(ps)
         IN  total_import_kwh * dyn_price_avg
             - total_export_kwh * c.p_export_dyn

\* lines 73-77: feed-in costs
FeedinCost(c, total_export_kwh) ==
    c.feedin_monthly_cost * 12
    + Max2(0, total_export_kwh - c.feedin_free_kwh) * c.feedin_price_after_free

\* the capacity term charged in every country
CapacityTariff_AnyCountry(c, peak_kw_before, peak_kw_after) ==
    IF peak_kw_before # None /\ peak_kw_after # None
    THEN (peak_kw_after[1] - peak_kw_before[1]) * c.capacity_tariff_kw
    ELSE 0

\* lines 87-92: capacity tariff (BE)
CapacityTariff(c, peak_kw_before, peak_kw_after) ==
    IF c.country = "BE" /\ peak_kw_before # None /\ peak_kw_after # None
    THEN (peak_kw_after[1] - peak_kw_before[1]) * c.capacity_tariff_kw
    ELSE 0

\* compute_cost without its final else branch: a tariff type that is not
\* known is priced as the dynamic tariff
compute_cost_NoElse(c, import_profile_kwh, export_profile_kwh, tariff_type, peak_kw_before, peak_kw_after) ==
    [raised |-> "",
     import_kwh |-> Sum(import_profile_kwh),
     export_kwh |-> Sum(export_profile_kwh),
     total_cost_eur |->
         EnergyNet(c, tariff_type, Sum(import_profile_kwh),
                   Sum(export_profile_kwh))
         + FeedinCost(c, Sum(export_profile_kwh))
         + c.inverter_power_kw * c.inverter_cost_per_kw
         + CapacityTariff(c, peak_kw_before, peak_kw_after)
         + c.vastrecht_year]

\* CostEngine.compute_cost: a ScenarioResult, or the ValueError raised
compute_cost(c, import_profile_kwh, export_profile_kwh, tariff_type, peak_kw_before, peak_kw_after) ==
    LET total_import_kwh == Sum(import_profile_kwh)
        total_export_kwh == Sum(export_profile_kwh)
    IN  IF tariff_type \notin {"enkel", "dag_nacht", "dynamisch"}
        THEN [raised |-> "ValueError", import_kwh |-> 0, export_kwh |-> 0,
              total_cost_eur |-> 0]
        ELSE [raised |-> "",
              import_kwh |-> total_import_kwh,
              export_kwh |-> total_export_kwh,
              total_cost_eur |->
                  EnergyNet(c, tariff_type, total_import_kwh, total_export_kwh)
                  + FeedinCost(c, total_export_kwh)
                  + c.inverter_power_kw * c.inverter_cost_per_kw
                  + CapacityTariff(c, peak_kw_before, peak_kw_after)
                  + c.vastrecht_year]

----------------------------------------------------------------------------
\* roi_engine.py
\* degradation is in percent; the factor (1 - degradation) ** (year - 1) is
\* kept in ten-thousandths.

RECURSIVE DegradationFactor(_, _)
DegradationFactor(degradation, year) ==
    IF year <= 1 THEN 10000
    ELSE (DegradationFactor(degradation, year - 1) * (100 - degradation))
         \div 100

\* lines 47-48: year_save of the given year
YearSave(saving, degradation, year) ==
    (saving * DegradationFactor(degradation, year)) \div 10000

\* payback set in every year in which the total has reached the cost
PaybackAfter_Latest(payback, total, cost, year) ==
    IF total >= cost THEN Some(year) ELSE payback

\* lines 51-52: payback after the year's test
PaybackAfter(payback, total, cost, year) ==
    IF payback = None /\ total >= cost THEN Some(year) ELSE payback

\* the loop of ROIEngine.compute from the given year on
RECURSIVE ROILoop(_, _, _, _, _, _, _)
ROILoop(cost, saving, degradation, horizon_years, year, total_savings, payback) ==
    IF year > horizon_years
    THEN [total_savings |-> total_savings, payback |-> payback]
    ELSE ROILoop(cost, saving, degradation, horizon_years, year + 1,
                 total_savings + YearSave(saving, degradation, year),
                 PaybackAfter(payback,
                              total_savings + YearSave(saving, degradation, year),
                              cost, year))

\* ROIEngine.compute
ROIEngine_compute(battery_cost_eur, yearly_saving_eur, degradation, horizon_years) ==
    IF battery_cost_eur <= 0 \/ yearly_saving_eur <= 0
    THEN [yearly_saving_eur |-> yearly_saving_eur, payback_years |-> None,
          roi_percent |-> 0]
    ELSE LET r == ROILoop(battery_cost_eur, yearly_saving_eur, degradation,
                          horizon_years, 1, 0, None)
         IN  [yearly_saving_eur |-> yearly_saving_eur,
              payback_years |-> r.payback,
              roi_percent |-> ((r.total_savings - battery_cost_eur) * 100)
                              \div battery_cost_eur]

----------------------------------------------------------------------------
\* dynamic_prices.py

\* _fallback_hourly_profile before normalisation, in hundredths
FallbackProfile ==
    << 75, 72, 70, 70, 72, 78,
       95, 105, 110,
       102, 98, 95,
       92, 95, 98,
       105, 115, 125,
       135, 145, 140,
       120, 100, 85 >>

\* build_dynamic_prices_hybrid: the prices (the source label is not used
\* by the caller).  _normalize_profile divides by the average
\* sum(p) / 24, so a price is avg_import_price * p[h] * 24 / sum(p).
build_dynamic_prices_hybrid(n_steps, dt_hours, avg_import_price, historic_prices) ==
    LET avg == IF avg_import_price <= 0 THEN 1 ELSE avg_import_price
        d == IF dt_hours <= 0 THEN 4 ELSE dt_hours
    IN  IF Len(historic_prices) > 0 /\ Len(historic_prices) = n_steps
        THEN historic_prices
        ELSE [k \in 1..n_steps |->
                LET hour_of_day == (((k - 1) * d) \div 4) % 24
                IN  (avg * FallbackProfile[hour_of_day + 1] * 24)
                    \div Sum(FallbackProfile)]

----------------------------------------------------------------------------
\* scenario_runner.py

Tariffs3 == {"enkel", "dag_nacht", "dynamisch"}

days_per_month == <<31, 28, 31, 30, 31, 30, 31, 31, 30, 31, 30, 31>>

\* values[a:b] of Python (0-based, clipped to the list)
Slice(values, a, b) ==
    LET lo == Min2(a, Len(values))
        hi == Min2(b, Len(values))
    IN  [k \in 1..(hi - lo) |-> values[lo + k]]

RECURSIVE DaysBefore(_)
DaysBefore(m) == IF m <= 1 THEN 0 ELSE DaysBefore(m - 1) + days_per_month[m - 1]

\* ScenarioRunner.split_by_month
split_by_month(values, dt_hours) ==
    LET steps_per_day == (24 * 4) \div dt_hours
    IN  [m \in 1..12 |->
            Slice(values, DaysBefore(m) * steps_per_day,
                  (DaysBefore(m) + days_per_month[m]) * steps_per_day)]

\* _scenario_result_to_dict
ScenarioResultToDict(sr) ==
    [import_kwh |-> sr.import_kwh, export_kwh |-> sr.export_kwh,
     total_cost_eur |-> sr.total_cost_eur]

\* assess_battery; notes are abbreviated to tags
assess_battery(E, P, yearly_load, peak_kw4, has_ev, has_heatpump) ==
    IF E <= 0 \/ P <= 0
    THEN [capacity_fit |-> "unknown", power_fit |-> "unknown",
          primary_use |-> "unknown", notes |-> <<"no_battery">>]
    ELSE LET \* hours_equivalent = E / (yearly_load / 365)
             capacity_fit ==
                 IF yearly_load > 0
                 THEN IF E * 365 < 2 * yearly_load THEN "small"
                      ELSE IF E * 365 > 6 * yearly_load THEN "large"
                      ELSE "adequate"
                 ELSE "unknown"
             \* power_ratio = P / peak_kw, peak_kw4 = 4 * peak_kw
             power_fit ==
                 IF peak_kw4 > 0
                 THEN IF 16 * P < peak_kw4 THEN "undersized"
                      ELSE IF 16 * P > 3 * peak_kw4 THEN "oversized"
                      ELSE "adequate"
                 ELSE "unknown"
         IN  [capacity_fit |-> capacity_fit, power_fit |-> power_fit,
              primary_use |-> IF has_ev \/ has_heatpump THEN "load_shifting"
                              ELSE "self_consumption",
              notes |-> (IF capacity_fit = "small" THEN <<"capacity_small">>
                         ELSE IF capacity_fit = "large"
                         THEN <<"capacity_large">> ELSE <<>>)
                        \o (IF power_fit = "undersized"
                            THEN <<"power_low">>
                            ELSE IF power_fit = "oversized"
                            THEN <<"power_high">> ELSE <<>>)]

\* sum of the values whose step falls into hour h of the day
RECURSIVE HourlySum(_, _, _, _)
HourlySum(values, steps_per_hour, h, k) ==
    IF k > Len(values) THEN 0
    ELSE (IF ((k - 1) \div steps_per_hour) % 24 = h THEN values[k] ELSE 0)
         + HourlySum(values, steps_per_hour, h, k + 1)

\* max(range(24), key = ...): the first hour with the largest total
PeakHour(values, steps_per_hour) ==
    LET tot == [h \in 0..23 |-> HourlySum(values, steps_per_hour, h, 1)]
    IN  CHOOSE h \in 0..23 :
            /\ \A g \in 0..23 : tot[g] <= tot[h]
            /\ \A g \in 0..(h - 1) : tot[g] < tot[h]

MaxOf(values) == CHOOSE x \in {values[k] : k \in 1..Len(values)} :
                     \A k \in 1..Len(values) : values[k] <= x

\* lines 221-262 of run: the battery model, the PV-only simulation, the
\* dynamic prices and the simulation on them; nothing without a battery
RunSims(r) ==
    IF r.batt_cfg = None
    THEN [sims |-> <<>>, prices_dyn |-> None]
    ELSE LET tc == r.tariff_cfg
             ld == r.load.values
             p == r.pv.values
             dth == r.load.dt_hours
             bc == r.batt_cfg[1]
             battery_model == BatteryModel(bc.E, bc.P, bc.DoD, bc.eta_rt, 5)
             prices_dyn ==
                 build_dynamic_prices_hybrid(
                     Len(ld), dth,
                     IF tc.current_tariff # "dynamisch" THEN tc.p_enkel_imp
                     ELSE tc.p_export_dyn + (tc.p_enkel_imp - tc.p_export_dyn),
                     tc.dynamic_prices)
         IN  [sims |->
                << simulate_with_battery(ld, p, dth, Some(battery_model), None,
                                         FALSE),
                   simulate_with_battery(ld, p, dth, Some(battery_model),
                                         prices_dyn, tc.allow_grid_charge) >>,
              prices_dyn |-> prices_dyn]

\* the twelve monthly totals of one tariff
MonthlyCost(c, imp_m, exp_m, t) ==
    [m \in 1..12 |->
        compute_cost(c, imp_m[m], exp_m[m], t, None, None).total_cost_eur]

\* lines 149-211 of run: A1 and B1 priced on the simulation without a
\* battery, and B1 per month
RunNoBattery(r, A1_sim) ==
    LET tc == r.tariff_cfg
        dth == r.load.dt_hours
        cfgA1 == [tc EXCEPT !.saldering = TRUE]
        cfgB1 == [tc EXCEPT !.saldering = FALSE]
        A1_per_tariff ==
            [t \in Tariffs3 |->
                compute_cost(cfgA1, A1_sim.import_profile,
                             A1_sim.export_profile, t, None, None)]
    IN  [A1_per_tariff |-> A1_per_tariff,
         A1 |-> IF tc.current_tariff \in Tariffs3
                THEN A1_per_tariff[tc.current_tariff]
                ELSE A1_per_tariff["enkel"],
         B1 |-> [t \in Tariffs3 |->
                    compute_cost(cfgB1, A1_sim.import_profile,
                                 A1_sim.export_profile, t, None, None)],
         B1_monthly |->
             [t \in Tariffs3 |->
                 MonthlyCost(cfgB1, split_by_month(A1_sim.import_profile, dth),
                             split_by_month(A1_sim.export_profile, dth), t)]]

\* lines 216-308 of run: C1 priced on the simulations with the battery (the
\* dynamic tariff on the simulation with prices), and C1 per month
RunBattery(r, nb, sims) ==
    LET cfgB1 == [r.tariff_cfg EXCEPT !.saldering = FALSE]
        dth == r.load.dt_hours
    IN  IF r.batt_cfg = None
        THEN [C1 |-> nb.B1, C1_monthly |-> nb.B1_monthly]
        ELSE [C1 |->
                [t \in Tariffs3 |->
                    compute_cost(
                        cfgB1,
                        sims[IF t = "dynamisch" THEN 2 ELSE 1].import_profile,
                        sims[IF t = "dynamisch" THEN 2 ELSE 1].export_profile,
                        t, None, None)],
              C1_monthly |->
                [t \in Tariffs3 |->
                    MonthlyCost(
                        cfgB1,
                        split_by_month(
                            sims[IF t = "dynamisch" THEN 2 ELSE 1].import_profile,
                            dth),
                        split_by_month(
                            sims[IF t = "dynamisch" THEN 2 ELSE 1].export_profile,
                            dth),
                        t)]]

\* without a battery the payback is reported as 0 years
RunRoi_ZeroPayback(r, B1, C1) ==
    [t \in Tariffs3 |->
        IF r.batt_cfg = None
        THEN [yearly_saving_eur |-> 0, payback_years |-> Some(0),
              roi_percent |-> 0]
        ELSE ROIEngine_compute(
                 r.batt_cfg[1].investment_eur,
                 B1[t].total_cost_eur - C1[t].total_cost_eur,
                 r.batt_cfg[1].degradation_per_year,
                 r.batt_cfg[1].lifetime_years)]

\* lines 350-373 of run: the return on investment per tariff
RunRoi(r, B1, C1) ==
    [t \in Tariffs3 |->
        IF r.batt_cfg = None
        THEN [yearly_saving_eur |-> 0, payback_years |-> None,
              roi_percent |-> 0]
        ELSE ROIEngine_compute(
                 r.batt_cfg[1].investment_eur,
                 B1[t].total_cost_eur - C1[t].total_cost_eur,
                 r.batt_cfg[1].degradation_per_year,
                 r.batt_cfg[1].lifetime_years)]

\* lines 379-420 of run: the energy profile and the battery assessment
RunProfile(r) ==
    LET ld == r.load.values
        p == r.pv.values
        dth == r.load.dt_hours
        steps_per_hour == 4 \div dth
        n == Min2(Len(ld), Len(p))
    IN  [energy_profile |->
            [annual_load_kwh |-> Sum(ld),
             annual_pv_kwh |-> Sum(p),
             direct_self_consumption_kwh |->
                 Sum([k \in 1..n |-> Min2(ld[k], p[k])]),
             pv_export_kwh |-> Sum([k \in 1..n |-> Max2(p[k] - ld[k], 0)]),
             peak_load_hour |-> PeakHour(Slice(ld, 0, n), steps_per_hour),
             peak_pv_hour |-> PeakHour(Slice(p, 0, n), steps_per_hour)],
         battery_assessment |->
            assess_battery(IF r.batt_cfg = None THEN 0 ELSE r.batt_cfg[1].E,
                           IF r.batt_cfg = None THEN 0 ELSE r.batt_cfg[1].P,
                           Sum(ld), (MaxOf(ld) * 16) \div dth, FALSE, FALSE)]

\* lines 422-452 of run: the returned dictionary
RunOutput(nb, bt, roi_per_tariff, prof) ==
    [A1 |-> ScenarioResultToDict(nb.A1),
     A1_per_tariff |->
         [t \in Tariffs3 |-> ScenarioResultToDict(nb.A1_per_tariff[t])],
     B1 |-> [t \in Tariffs3 |-> ScenarioResultToDict(nb.B1[t])],
     C1 |-> [t \in Tariffs3 |-> ScenarioResultToDict(bt.C1[t])],
     B1_monthly |-> nb.B1_monthly,
     C1_monthly |-> bt.C1_monthly,
     roi_per_tariff |-> roi_per_tariff,
     peaks |-> [monthly_before |-> <<>>, monthly_after |-> <<>>],
     energy_profile |-> prof.energy_profile,
     battery_assessment |-> prof.battery_assessment]

\* run from the point where the simulations are done
RunPriced(r, A1_sim, sm, nb, bt) ==
    [A1_sim |-> A1_sim,
     sims |-> sm.sims,
     prices_dyn |-> sm.prices_dyn,
     out |-> RunOutput(nb, bt, RunRoi(r, nb.B1, bt.C1), RunProfile(r))]

\* run from the point where A1 and B1 are priced
RunSimulated(r, A1_sim, sm, nb) ==
    RunPriced(r, A1_sim, sm, nb, RunBattery(r, nb, sm.sims))

\* run from the simulation without a battery on
RunFrom(r, A1_sim, sm) ==
    RunSimulated(r, A1_sim, sm, RunNoBattery(r, A1_sim))

\* the locals of ScenarioRunner.run at its return, for a runner object r
\* with a non-empty load series
RunLocals(r) ==
    RunFrom(r, simulate_no_battery(r.load.values, r.pv.values, r.load.dt_hours),
            RunSims(r))

\* run() that also keeps the prices it built on the tariff configuration
RunEffect_KeepsPrices(r) ==
    [r EXCEPT !.tariff_cfg.saldering = FALSE,
              !.tariff_cfg.dynamic_prices =
                  IF r.batt_cfg = None THEN @ ELSE RunSims(r).prices_dyn]

\* lines 158 and 174: the runner object after run(): the only writes to
\* self are the two assignments to self.tariff_cfg.saldering
RunEffect(r) == [r EXCEPT !.tariff_cfg.saldering = FALSE]

----------------------------------------------------------------------------
\* engine.py

\* the series as compute passes them on, without the cut to the common
\* length
EngineSeries_NoCut(values, n) == values

\* lines 75-77: input_data.load_kwh[:n]
EngineSeries(values, n) == Slice(values, 0, n)

\* the ScenarioRunner arguments that BatteryEnginePro3.compute builds from a
\* ComputeV3Input with non-empty series (lines 75-145)
EngineRunner(inp) ==
    LET n == Min2(Len(inp.load_kwh), Len(inp.pv_kwh))
        load_vals == EngineSeries(inp.load_kwh, n)
        pv_vals == EngineSeries(inp.pv_kwh, n)
        d == IF n >= 30000 THEN 1 ELSE 4
        timestamps == [k \in 1..n |-> d * (k - 1)]
        dyn_prices == IF Len(inp.prices_dyn) > 0 /\ Len(inp.prices_dyn) = n
                      THEN inp.prices_dyn ELSE None
    IN  [load |-> [timestamps |-> timestamps, values |-> load_vals,
                   dt_hours |-> d],
         pv |-> [timestamps |-> timestamps, values |-> pv_vals,
                 dt_hours |-> d],
         tariff_cfg |->
            [country |-> inp.country, current_tariff |-> inp.current_tariff,
             vastrecht_year |-> inp.vastrecht,
             p_enkel_imp |-> inp.p_enkel_imp, p_enkel_exp |-> inp.p_enkel_exp,
             p_dag |-> inp.p_dag, p_nacht |-> inp.p_nacht,
             p_exp_dn |-> inp.p_exp_dn,
             p_export_dyn |-> inp.p_export_dyn, dynamic_prices |-> dyn_prices,
             feedin_monthly_cost |-> inp.feedin_monthly_cost,
             feedin_cost_per_kwh |-> inp.feedin_cost_per_kwh,
             feedin_free_kwh |-> inp.feedin_free_kwh,
             feedin_price_after_free |-> inp.feedin_price_after_free,
             inverter_power_kw |-> inp.inverter_power_kw,
             inverter_cost_per_kw |-> inp.inverter_cost_per_kw_year,
             capacity_tariff_kw |-> inp.capacity_tariff_kw_year,
             allow_grid_charge |-> FALSE, saldering |-> TRUE],
         batt_cfg |->
            Some([E |-> inp.E, P |-> inp.P, DoD |-> inp.DoD,
                  eta_rt |-> inp.eta_rt,
                  degradation_per_year |-> inp.battery_degradation,
                  investment_eur |-> inp.battery_cost,
                  lifetime_years |-> 15])]

\* lines 72-73: the validation of BatteryEnginePro3.compute
EngineRejects(inp) == Len(inp.load_kwh) = 0 \/ Len(inp.pv_kwh) = 0

----------------------------------------------------------------------------
\* State machines

\* no call of simulate_with_peak_shaving is in progress
PeakOff ==
    /\ peak_pc = "off"
    /\ pk_load = <<>> /\ pk_pv = <<>> /\ pk_months = <<>> /\ pk_dt = 4
    /\ pk_battery = None /\ monthly_targets = <<>> /\ soc_plan = None
    /\ pk_t = 0 /\ pk_soc = 0
    /\ import_profile = <<>> /\ export_profile = <<>> /\ soc_profile = <<>>
    /\ monthly_peaks_after = <<>>

\* no BatteryModel is under construction
BattOff ==
    /\ batt_pc = "off" /\ batt_args = None /\ batt_model = None

\* no call of ROIEngine.compute is in progress
\* neither compute_monthly_peaks nor the planner has been called
PlanOff ==
    /\ plan_pc = "off" /\ plan_args = None /\ baseline_peaks = None
    /\ soc_min_curve = None

RoiOff ==
    /\ roi_pc = "off" /\ roi_cfg = None /\ roi_year = 0
    /\ roi_total = 0 /\ roi_payback = None /\ roi_result = None

\* ---- the simulator as a state machine

\* neither the engine nor a runner is in use
RunOff ==
    /\ run_pc = "off" /\ input_data = None /\ runner = None
    /\ run_outs = <<>> /\ run_locals = None /\ compute_out = <<>>

\* no CostEngine exists
CostOff ==
    /\ cost_pc = "off" /\ cfg = None /\ cost_args = None
    /\ cost_result = None

\* no BatterySimulator exists
SimOff ==
    /\ sim_pc = "off" /\ sim_call = ""
    /\ load = <<>> /\ pv = <<>> /\ dt = 4 /\ battery = None /\ prices = None
    /\ allow_grid_charge = FALSE /\ i = 0 /\ soc = 0
    /\ import_p = <<>> /\ export_p = <<>> /\ soc_p = <<>>
    /\ sim_result = None

\* price series longer than the load series, of four steps: with fewer
\* steps no price lies below the 30th percentile
LongPrices == { <<1, 3, 3, 3>>, <<1, 1, 3, 3>>, <<3, 1, 3, 3>> }

\* state after BatterySimulator.__init__
InitSim ==
    /\ sim_pc = "ready"
    /\ sim_call = ""
    /\ \E n \in 1..MaxLen :
          /\ load \in SeqsOfLen(LoadVals, n)
          /\ pv \in SeqsOfLen(PvVals, n)
          /\ prices \in {None} \cup SeqsOfLen(PriceVals, n) \cup LongPrices
    /\ dt \in {1, 4}
    /\ battery \in {None} \cup {Some(b) : b \in SimBatteries}
    /\ allow_grid_charge \in BOOLEAN
    /\ i = 0
    /\ soc = 0
    /\ import_p = <<>>
    /\ export_p = <<>>
    /\ soc_p = <<>>
    /\ sim_result = None
    /\ PeakOff /\ CostOff /\ RunOff /\ BattOff /\ RoiOff
    /\ PlanOff

\* a call of simulate_no_battery()
CallSimulateNoBattery ==
    /\ sim_pc = "ready"
    /\ LET r == simulate_no_battery(load, pv, dt)
       IN  /\ import_p' = r.import_profile
           /\ export_p' = r.export_profile
           /\ soc_p' = r.soc_profile
           /\ sim_result' = Some(r)
    /\ sim_pc' = "done"
    /\ sim_call' = "simulate_no_battery"
    /\ UNCHANGED <<load, pv, dt, battery, prices, allow_grid_charge, i, soc>>
    /\ UNCHANGED <<peakVars, costVars, runVars, battVars, roiVars,
                   planVars>>

\* simulate_with_battery() up to the loop; without a battery it returns
\* simulate_no_battery()
SimulateWithBatteryEnter ==
    /\ sim_pc = "ready"
    /\ IF battery = None
       THEN LET r == simulate_no_battery(load, pv, dt)
            IN  /\ import_p' = r.import_profile
                /\ export_p' = r.export_profile
                /\ soc_p' = r.soc_profile
                /\ sim_result' = Some(r)
                /\ sim_pc' = "done"
                /\ soc' = soc
       ELSE /\ soc' = battery[1].initial_soc_kwh
            /\ sim_pc' = "loop"
            /\ UNCHANGED <<import_p, export_p, soc_p, sim_result>>
    /\ sim_call' = "simulate_with_battery"
    /\ UNCHANGED <<load, pv, dt, battery, prices, allow_grid_charge, i>>
    /\ UNCHANGED <<peakVars, costVars, runVars, battVars, roiVars,
                   planVars>>

\* one iteration of the loop
SimulateWithBatteryStep ==
    /\ sim_pc = "loop"
    /\ i < Min2(Len(load), Len(pv))
    /\ LET r == SimStep(battery[1], dt, prices, allow_grid_charge, i, soc,
                        load[i + 1], pv[i + 1])
       IN  /\ soc' = r.soc
           /\ import_p' = Append(import_p, r.import_kwh)
           /\ export_p' = Append(export_p, r.export_kwh)
           /\ soc_p' = Append(soc_p, r.soc)
    /\ i' = i + 1
    /\ UNCHANGED <<sim_pc, sim_call, load, pv, dt, battery, prices,
                   allow_grid_charge, sim_result>>
    /\ UNCHANGED <<peakVars, costVars, runVars, battVars, roiVars,
                   planVars>>

\* the return statement after the loop
SimulateWithBatteryReturn ==
    /\ sim_pc = "loop"
    /\ i >= Min2(Len(load), Len(pv))
    /\ sim_result' = Some([import_kwh |-> Sum(import_p),
                           export_kwh |-> Sum(export_p),
                           import_profile |-> import_p,
                           export_profile |-> export_p,
                           soc_profile |-> soc_p,
                           dt_hours |-> dt])
    /\ sim_pc' = "done"
    /\ UNCHANGED <<sim_call, load, pv, dt, battery, prices, allow_grid_charge,
                   i, soc, import_p, export_p, soc_p>>
    /\ UNCHANGED <<peakVars, costVars, runVars, battVars, roiVars,
                   planVars>>

NextSim ==
    \/ CallSimulateNoBattery
    \/ SimulateWithBatteryEnter
    \/ SimulateWithBatteryStep
    \/ SimulateWithBatteryReturn

SpecSim == InitSim /\ [][NextSim]_vars

\* C1: with a battery present, every entry of the soc profile built by
\* simulate_with_battery lies within [E_min, E_max], for every load, PV and
\* price series and either setting of allow_grid_charge.
C1_SocWithinBounds ==
    (sim_call = "simulate_with_battery" /\ battery # None) =>
        \A t \in 1..Len(soc_p) :
            battery[1].E_min <= soc_p[t] /\ soc_p[t] <= battery[1].E_max

\* a finished run with a battery whose state of charge moved and ended at
\* the upper bound
C1_Witness ==
    /\ sim_call = "simulate_with_battery" /\ battery # None
    /\ sim_pc = "done"
    /\ Len(soc_p) >= 2
    /\ soc_p[1] < soc_p[2]
    /\ soc_p[2] = battery[1].E_max
    /\ battery[1].E_min < battery[1].E_max

\* C4: without a battery (simulate_no_battery, or simulate_with_battery
\* with battery None) every step has import = max(load - pv, 0),
\* export = max(pv - load, 0), import - export = load - pv, and the soc
\* profile is zero everywhere.
C4_NoBatteryFlows ==
    (sim_pc = "done"
       /\ (sim_call = "simulate_no_battery" \/ battery = None)) =>
        /\ Len(import_p) = Len(load) /\ Len(export_p) = Len(load)
        /\ Len(soc_p) = Len(load)
        /\ \A t \in 1..Len(load) :
              /\ import_p[t] = Max2(load[t] - pv[t], 0)
              /\ export_p[t] = Max2(pv[t] - load[t], 0)
              /\ import_p[t] - export_p[t] = load[t] - pv[t]
              /\ soc_p[t] = 0
        /\ sim_result # None
        /\ sim_result[1].import_profile = import_p
        /\ sim_result[1].export_profile = export_p
        /\ sim_result[1].soc_profile = soc_p

\* a finished battery-less run with a step that imports and a step that
\* exports
C4_Witness ==
    /\ sim_pc = "done"
    /\ sim_call = "simulate_with_battery" /\ battery = None
    /\ \E t \in 1..Len(load) : load[t] > pv[t] /\ import_p[t] > 0
    /\ \E t \in 1..Len(load) : pv[t] > load[t] /\ export_p[t] > 0

\* the state of charge before step t (1-based) of simulate_with_battery
SimSocBefore(t) ==
    IF t = 1 THEN battery[1].initial_soc_kwh ELSE soc_p[t - 1]

\* C23: at every simulated step with surplus PV > 0 the energy taken from the
\* surplus is min(surplus, P_max * dt, (E_max - soc) / eta_charge), the PV
\* left over is exported and, without grid charging, the state of charge has
\* risen by that energy * eta_charge.  Stated for steps whose amounts lie on
\* the grid.
C23_PvChargeUsesHeadroomOverEta ==
    (sim_call = "simulate_with_battery" /\ battery # None
       /\ ~ allow_grid_charge) =>
        \A t \in 1..Len(soc_p) :
            LET b == battery[1]
                surplus == pv[t] - load[t]
                room == DivEta(b.E_max - SimSocBefore(t), b.eta_charge)
                taken == Min3(surplus, MulDt(b.P_max, dt), room)
            IN  (/\ surplus > 0
                 /\ room * b.eta_charge = (b.E_max - SimSocBefore(t)) * 10
                 /\ MulEta(taken, b.eta_charge) * 10 = taken * b.eta_charge) =>
                    /\ export_p[t] = surplus - taken
                    /\ soc_p[t] = SimSocBefore(t) + MulEta(taken, b.eta_charge)

\* C24: at every simulated step with remaining load > 0 the battery delivers
\* min(remaining load, P_max * dt, (soc - E_min) * eta_discharge), only the
\* shortfall is imported and, without grid charging, the state of charge has
\* fallen by delivered / eta_discharge.  Stated for steps whose amounts lie
\* on the grid.
C24_DischargeDownToEmin ==
    (sim_call = "simulate_with_battery" /\ battery # None
       /\ ~ allow_grid_charge) =>
        \A t \in 1..Len(soc_p) :
            LET b == battery[1]
                remaining == load[t] - pv[t]
                above == MulEta(SimSocBefore(t) - b.E_min, b.eta_discharge)
                delivered == Min3(remaining, MulDt(b.P_max, dt), above)
            IN  (/\ remaining > 0
                 /\ above * 10 = (SimSocBefore(t) - b.E_min) * b.eta_discharge
                 /\ DivEta(delivered, b.eta_discharge) * b.eta_discharge
                       = delivered * 10) =>
                    /\ import_p[t] = remaining - delivered
                    /\ soc_p[t] = SimSocBefore(t)
                                   - DivEta(delivered, b.eta_discharge)

\* C25: two runs of simulate_with_battery with the same battery, interval and
\* grid-charging flag whose load, PV and price series agree on the first k
\* steps return soc, import and export profiles that agree on those k steps,
\* whatever the later inputs are.
C25_StepCausality ==
    (sim_call = "simulate_with_battery" /\ battery # None
       /\ sim_pc = "done") =>
        \A k \in 1..Len(load) :
          \A ps2 \in {None} \cup SeqsOfLen(PriceVals, Len(load)) \cup LongPrices :
            (\A j \in 1..k : /\ (j <= Len(ps2)) = (j <= Len(prices))
                              /\ j <= Len(ps2) => ps2[j] = prices[j]) =>
              \A ld2 \in SeqsOfLen(LoadVals, Len(load)) :
                \A p2 \in SeqsOfLen(PvVals, Len(load)) :
                  (\A j \in 1..k : ld2[j] = load[j] /\ p2[j] = pv[j]) =>
                    \A r2 \in {simulate_with_battery(ld2, p2, dt, battery, ps2,
                                                     allow_grid_charge)} :
                        /\ SubSeq(r2.soc_profile, 1, k) = SubSeq(soc_p, 1, k)
                        /\ SubSeq(r2.import_profile, 1, k)
                              = SubSeq(import_p, 1, k)
                        /\ SubSeq(r2.export_profile, 1, k)
                              = SubSeq(export_p, 1, k)

\* C29: in every simulated step the energy put into the battery, from the
\* PV surplus and from the grid together, is at most P_max * dt.
C29_ChargeWithinPower ==
    (sim_call = "simulate_with_battery" /\ battery # None) =>
        \A t \in 1..Len(soc_p) :
            \A r \in {SimStep(battery[1], dt, prices, allow_grid_charge, t - 1,
                              SimSocBefore(t), load[t], pv[t])} :
                /\ r.import_kwh = import_p[t]
                /\ r.export_kwh = export_p[t]
                /\ r.charge_pv + r.charge_grid <= MulDt(battery[1].P_max, dt)

\* C30: with grid charging disabled, every step of simulate_with_battery
\* imports at least 0 and at most max(load - pv, 0) and exports at least 0
\* and at most max(pv - load, 0), the values of simulate_no_battery for the
\* same series.
C30_NoMoreGridExchange ==
    (sim_call = "simulate_with_battery" /\ battery # None
       /\ ~ allow_grid_charge) =>
        \A t \in 1..Len(import_p) :
            /\ 0 <= import_p[t]
            /\ import_p[t] <= Max2(load[t] - pv[t], 0)
            /\ import_p[t]
                  <= simulate_no_battery(load, pv, dt).import_profile[t]
            /\ 0 <= export_p[t]
            /\ export_p[t] <= Max2(pv[t] - load[t], 0)
            /\ export_p[t]
                  <= simulate_no_battery(load, pv, dt).export_profile[t]

\* a finished run without grid charging in which the battery took part of
\* the import of one step and part of the export of another
C30_Witness ==
    /\ sim_call = "simulate_with_battery" /\ battery # None
    /\ ~ allow_grid_charge
    /\ sim_pc = "done"
    /\ \E t \in 1..Len(import_p) :
          /\ load[t] > pv[t]
          /\ 0 < import_p[t]
          /\ import_p[t] < load[t] - pv[t]
    /\ \E t \in 1..Len(export_p) :
          /\ pv[t] > load[t]
          /\ 0 < export_p[t]
          /\ export_p[t] < pv[t] - load[t]

\* ---- the construction of a BatteryModel as a state machine

\* constructor arguments: in range, on the boundaries and out of range
\* (dod and initial_soc_frac in tenths, eta in hundredths)
BattECaps == {-5, 0, 10, 20}
BattPMaxs == {-1, 0, 5}
BattDods == {-2, 0, 5, 8, 9, 10, 12}
BattEtas == {-10, 0, 81, 90, 100, 400}
BattFracs == {-1, 0, 5, 10, 15}

\* BatteryModel(E_cap, P_max, dod, eta, initial_soc_frac) has been called
\* and the dataclass fields are assigned; __post_init__ has not run yet
InitBatt ==
    /\ batt_pc = "new"
    /\ \E E \in BattECaps, P \in BattPMaxs, d \in BattDods, e \in BattEtas,
          f \in BattFracs :
          batt_args = Some([E_cap |-> E, P_max |-> P, dod |-> d, eta |-> e,
                            initial_soc_frac |-> f])
    /\ batt_model = None
    /\ SimOff /\ PeakOff /\ CostOff /\ RunOff /\ RoiOff
    /\ PlanOff

\* BatteryModel.__post_init__; no statement of it raises
BatteryModelPostInit ==
    /\ batt_pc = "new"
    /\ batt_model' = Some(BatteryModel(batt_args[1].E_cap, batt_args[1].P_max,
                                       batt_args[1].dod, batt_args[1].eta,
                                       batt_args[1].initial_soc_frac))
    /\ batt_pc' = "constructed"
    /\ UNCHANGED batt_args
    /\ UNCHANGED <<simVars, peakVars, costVars, runVars, roiVars,
                   planVars>>

NextBatt == BatteryModelPostInit

SpecBatt == InitBatt /\ [][NextBatt]_vars

RoiCosts == {-100, 0, 100, 1000}
RoiSavings == {-10, 0, 40, 100, 300}
RoiDegradations == {0, 2, 50}
RoiHorizons == {2, 5, 15}

\* ROIEngine.compute(cfg) has been called
InitRoi ==
    /\ roi_pc = "ready"
    /\ \E c \in RoiCosts, sv \in RoiSavings, dg \in RoiDegradations,
          h \in RoiHorizons :
          roi_cfg = Some([battery_cost_eur |-> c, yearly_saving_eur |-> sv,
                          degradation |-> dg, horizon_years |-> h])
    /\ roi_year = 0
    /\ roi_total = 0
    /\ roi_payback = None
    /\ roi_result = None
    /\ SimOff /\ PeakOff /\ CostOff /\ RunOff /\ BattOff
    /\ PlanOff

\* lines 36-44: the early return, or the locals set before the loop
ROIEnter ==
    /\ roi_pc = "ready"
    /\ IF roi_cfg[1].battery_cost_eur <= 0 \/ roi_cfg[1].yearly_saving_eur <= 0
       THEN /\ roi_result' = Some([yearly_saving_eur |->
                                       roi_cfg[1].yearly_saving_eur,
                                   payback_years |-> None,
                                   roi_percent |-> 0])
            /\ roi_pc' = "returned"
       ELSE /\ roi_pc' = "loop"
            /\ UNCHANGED roi_result
    /\ UNCHANGED <<roi_cfg, roi_year, roi_total, roi_payback>>
    /\ UNCHANGED <<simVars, peakVars, costVars, runVars, battVars,
                   planVars>>

\* lines 46-52: one iteration of the loop
ROIStep ==
    /\ roi_pc = "loop"
    /\ roi_year < roi_cfg[1].horizon_years
    /\ roi_year' = roi_year + 1
    /\ roi_total' = roi_total + YearSave(roi_cfg[1].yearly_saving_eur,
                                         roi_cfg[1].degradation, roi_year + 1)
    /\ roi_payback' = PaybackAfter(roi_payback, roi_total',
                                   roi_cfg[1].battery_cost_eur, roi_year + 1)
    /\ UNCHANGED <<roi_pc, roi_cfg, roi_result>>
    /\ UNCHANGED <<simVars, peakVars, costVars, runVars, battVars,
                   planVars>>

\* lines 54-63: roi_percent and the return after the loop
ROIReturn ==
    /\ roi_pc = "loop"
    /\ roi_year >= roi_cfg[1].horizon_years
    /\ roi_result' = Some([yearly_saving_eur |-> roi_cfg[1].yearly_saving_eur,
                           payback_years |-> roi_payback,
                           roi_percent |->
                               ((roi_total - roi_cfg[1].battery_cost_eur) * 100)
                               \div roi_cfg[1].battery_cost_eur])
    /\ roi_pc' = "returned"
    /\ UNCHANGED <<roi_cfg, roi_year, roi_total, roi_payback>>
    /\ UNCHANGED <<simVars, peakVars, costVars, runVars, battVars,
                   planVars>>

NextRoi ==
    \/ ROIEnter
    \/ ROIStep
    \/ ROIReturn

SpecRoi == InitRoi /\ [][NextRoi]_vars

\* C17: compute returns as payback_years the smallest year y of
\* 1..horizon_years at which the cumulative saving, year k contributing
\* saving * (1 - degradation)^(k-1), has reached the investment, and null
\* when there is no such year; with investment <= 0 or saving <= 0 it
\* returns a null payback and roi_percent 0 and has not iterated.
C17_PaybackYear ==
    roi_pc = "returned" =>
        LET c == roi_cfg[1]
            res == roi_result[1]
            Cum(y) == Sum([k \in 1..y |->
                             YearSave(c.yearly_saving_eur, c.degradation, k)])
            reached == {y \in 1..c.horizon_years : Cum(y) >= c.battery_cost_eur}
        IN  IF c.battery_cost_eur <= 0 \/ c.yearly_saving_eur <= 0
            THEN /\ res.payback_years = None
                 /\ res.roi_percent = 0
                 /\ roi_year = 0
            ELSE IF reached = {}
            THEN res.payback_years = None
            ELSE /\ res.payback_years # None
                 /\ res.payback_years[1] \in reached
                 /\ \A y \in reached : res.payback_years[1] <= y

\* a call returned a payback year after the first and before the last year
\* of the horizon, under degradation
C17_Witness ==
    /\ roi_pc = "returned"
    /\ roi_cfg[1].degradation > 0
    /\ roi_result[1].payback_years # None
    /\ roi_result[1].payback_years[1] > 1
    /\ roi_result[1].payback_years[1] < roi_cfg[1].horizon_years

\* C18: for investment > 0 and saving > 0 compute returns roi_percent =
\* (total saving summed over the horizon) / investment * 100.
C18_RoiPercentOfTotal ==
    (/\ roi_pc = "returned"
     /\ roi_cfg[1].battery_cost_eur > 0
     /\ roi_cfg[1].yearly_saving_eur > 0) =>
        roi_result[1].roi_percent =
            (roi_total * 100) \div roi_cfg[1].battery_cost_eur

\* ---- simulate_with_peak_shaving as a state machine

\* the soc_plan the planner builds for the arguments of the call, from the
\* baseline peaks of the series and twelve monthly targets
PlannedSocPlans ==
    IF Len(monthly_targets) = 12
    THEN { plan_monthly_soc_targets(
               pk_load, pk_months, pk_dt, pk_battery,
               compute_monthly_peaks(pk_load, pk_pv, pk_months),
               monthly_targets) }
    ELSE {}

\* state at the head of the loop (lines 87-109): the arguments, and the
\* locals initialised; a soc_plan of None has become [E_min] * n
InitPeak ==
    /\ peak_pc = "loop"
    /\ \E n \in 1..MaxLen :
          /\ pk_load \in SeqsOfLen(LoadVals, n)
          /\ pk_pv \in SeqsOfLen(PvVals, n)
          /\ pk_months \in MonthLists(n)
          /\ import_profile = [t \in 1..n |-> 0]
          /\ export_profile = [t \in 1..n |-> 0]
          /\ soc_profile = [t \in 1..n |-> 0]
    /\ pk_dt \in {1, 4}
    /\ pk_battery \in Batteries
    /\ monthly_targets \in TargetLists
    /\ soc_plan \in {None} \cup PlanLists(Len(pk_load)) \cup PlannedSocPlans
    /\ pk_t = 0
    /\ pk_soc = pk_battery.initial_soc_kwh
    /\ monthly_peaks_after = Zeros12
    /\ SimOff /\ CostOff /\ RunOff /\ BattOff /\ RoiOff
    /\ PlanOff

\* the list the loop reads as soc_plan
EffectivePlan ==
    IF soc_plan = None THEN [t \in 1..Len(pk_load) |-> pk_battery.E_min]
    ELSE soc_plan

\* one iteration of the loop (lines 111-197)
PeakShavingStep ==
    /\ peak_pc = "loop"
    /\ pk_t < Len(pk_load)
    /\ LET r == PeakStep(pk_battery, pk_dt, monthly_targets,
                         EffectivePlan[pk_t + 1], pk_months[pk_t + 1],
                         pk_soc, pk_load[pk_t + 1], pk_pv[pk_t + 1])
       IN  /\ pk_soc' = r.soc
           /\ import_profile' = [import_profile EXCEPT ![pk_t + 1] = r.import]
           /\ export_profile' = [export_profile EXCEPT ![pk_t + 1] = r.export]
           /\ soc_profile' = [soc_profile EXCEPT ![pk_t + 1] = r.soc]
           /\ monthly_peaks_after' =
                 IF r.import > monthly_peaks_after[r.month + 1]
                 THEN [monthly_peaks_after EXCEPT ![r.month + 1] = r.import]
                 ELSE monthly_peaks_after
    /\ pk_t' = pk_t + 1
    /\ UNCHANGED <<peak_pc, pk_load, pk_pv, pk_months, pk_dt, pk_battery,
                   monthly_targets, soc_plan>>
    /\ UNCHANGED <<simVars, costVars, runVars, battVars, roiVars,
                   planVars>>

\* the return statement (line 199)
PeakShavingReturn ==
    /\ peak_pc = "loop"
    /\ pk_t >= Len(pk_load)
    /\ peak_pc' = "done"
    /\ UNCHANGED <<pk_load, pk_pv, pk_months, pk_dt, pk_battery,
                   monthly_targets, soc_plan, pk_t, pk_soc, import_profile,
                   export_profile, soc_profile, monthly_peaks_after>>
    /\ UNCHANGED <<simVars, costVars, runVars, battVars, roiVars,
                   planVars>>

NextPeak ==
    \/ PeakShavingStep
    \/ PeakShavingReturn

SpecPeak == InitPeak /\ [][NextPeak]_vars

\* C2: every entry of the soc profile returned by simulate_with_peak_shaving
\* lies within [E_min, E_max], for every load and PV series, all monthly
\* targets and every soc_plan (None, or with values above E_max).
C2_PeakSocWithinBounds ==
    peak_pc = "done" =>
        \A t \in 1..Len(soc_profile) :
            /\ pk_battery.E_min <= soc_profile[t]
            /\ soc_profile[t] <= pk_battery.E_max

\* a finished run in which a step above its target met a plan value above
\* E_max and the battery was neither empty nor left untouched
C2_Witness ==
    /\ peak_pc = "done"
    /\ soc_plan # None
    /\ \E t \in 1..Len(pk_load) :
          /\ soc_plan[t] > pk_battery.E_max
          /\ pk_load[t] - pk_pv[t] > 6
    /\ \E t \in 1..Len(pk_load) : soc_profile[t] # pk_battery.initial_soc_kwh
    /\ pk_battery.E_min < pk_battery.E_max

\* C3: for every month the realized peak monthly_peaks_after[m] is at most
\* the baseline peak compute_monthly_peaks(load, pv)[m] of the same series.
C3_PeakMonotone ==
    peak_pc = "done" =>
        \A m \in 1..12 :
            monthly_peaks_after[m]
                <= compute_monthly_peaks(pk_load, pk_pv, pk_months)[m]

\* a finished run whose January peak was really reduced while its February
\* peak stayed at the baseline
C3_Witness ==
    /\ peak_pc = "done"
    /\ monthly_peaks_after[1] > 0
    /\ monthly_peaks_after[1]
          < compute_monthly_peaks(pk_load, pk_pv, pk_months)[1]
    /\ monthly_peaks_after[2] > 0
    /\ monthly_peaks_after[2]
          = compute_monthly_peaks(pk_load, pk_pv, pk_months)[2]

\* the state of charge before step t (1-based) of the peak-shaving loop
PeakSocBefore(t) ==
    IF t = 1 THEN pk_battery.initial_soc_kwh ELSE soc_profile[t - 1]

\* line 116: the target peak of step t (1-based)
PeakTargetAt(t) ==
    IF pk_months[t] - 1 < Len(monthly_targets)
    THEN monthly_targets[pk_months[t]]
    ELSE monthly_targets[1]

\* C22: at a simulated step whose net load exceeds the month's target peak,
\* with the battery power covering the excess and the energy above the lower
\* state-of-charge bound covering excess * dt / eta_discharge (an amount that
\* lies on the grid), the import of the step is the target peak, the export
\* is 0 and the state of charge has decreased.
C22_ShavedToTarget ==
    \A t \in 1..pk_t :
        LET excess == pk_load[t] - pk_pv[t] - PeakTargetAt(t)
            needed == (excess * pk_dt * 10)
                      \div (4 * pk_battery.eta_discharge)
            lower_bound == Max2(pk_battery.E_min, EffectivePlan[t])
        IN  (/\ excess > 0
             /\ pk_battery.power_kw >= excess
             /\ needed * 4 * pk_battery.eta_discharge = excess * pk_dt * 10
             /\ PeakSocBefore(t) - lower_bound >= needed) =>
                /\ import_profile[t] = PeakTargetAt(t)
                /\ export_profile[t] = 0
                /\ soc_profile[t] < PeakSocBefore(t)

\* the shape of the test: a first step of 8 kW against a target of 6 kW,
\* the lossy battery delivering the 2 kW, so that 6 kW is imported
C22_Witness ==
    /\ pk_t >= 1
    /\ pk_load[1] - pk_pv[1] = 8
    /\ PeakTargetAt(1) = 6
    /\ pk_battery.power_kw >= 2
    /\ pk_battery.eta_discharge < 10
    /\ soc_plan = None
    /\ import_profile[1] = 6
    /\ export_profile[1] = 0
    /\ soc_profile[1] < pk_battery.initial_soc_kwh
    /\ monthly_peaks_after[1] = 6

\* C26: after shaving the excess above the target the battery falls back to
\* self-consumption discharge: at a simulated step whose net load is positive
\* but not above the target, the import is below load - pv whenever the
\* battery has power and holds energy above its lower bound.
C26_FallbackDischarge ==
    \A t \in 1..pk_t :
        (/\ pk_load[t] - pk_pv[t] > 0
         /\ pk_load[t] - pk_pv[t] <= PeakTargetAt(t)
         /\ pk_battery.power_kw > 0
         /\ PeakSocBefore(t) > Max2(pk_battery.E_min, EffectivePlan[t])) =>
            import_profile[t] < pk_load[t] - pk_pv[t]

\* C26 as the code has it: at a simulated step whose net load is positive
\* but not above the target the battery is left alone: the import is
\* load - pv, the export is 0 and the state of charge is what it was.
C26_NoFallbackDischarge ==
    \A t \in 1..pk_t :
        (/\ pk_load[t] - pk_pv[t] > 0
         /\ pk_load[t] - pk_pv[t] <= PeakTargetAt(t)) =>
            /\ import_profile[t] = pk_load[t] - pk_pv[t]
            /\ export_profile[t] = 0
            /\ soc_profile[t] = PeakSocBefore(t)

\* a step of 3 kW under a target of 6 kW with a battery that has power and
\* holds energy above its lower bound: the 3 kW are imported
C26_Witness ==
    /\ pk_t >= 1
    /\ pk_load[1] = 3 /\ pk_pv[1] = 0
    /\ PeakTargetAt(1) = 6
    /\ pk_battery.power_kw > 0
    /\ pk_battery.initial_soc_kwh > Max2(pk_battery.E_min, EffectivePlan[1])
    /\ import_profile[1] = 3
    /\ soc_profile[1] = pk_battery.initial_soc_kwh

\* C28: with a soc_plan built by plan_monthly_soc_targets from the baseline
\* peaks of the series and the monthly targets, every entry of the plan is at
\* least E_min, and a simulated step that starts with the state of charge at
\* or above soc_plan[t] ends with it at or above soc_plan[t].
C28_PlannedReserveKept ==
    (soc_plan # None /\ soc_plan \in PlannedSocPlans) =>
        \A t \in 1..pk_t :
            /\ soc_plan[t] >= pk_battery.E_min
            /\ (PeakSocBefore(t) >= soc_plan[t]) =>
                   (soc_profile[t] >= soc_plan[t])

\* a planned reserve above E_min stopped the shaving of the first step: the
\* state of charge came down to the plan and the import stayed above the
\* target
C28_Witness ==
    /\ soc_plan # None
    /\ soc_plan \in PlannedSocPlans
    /\ pk_t >= 1
    /\ soc_plan[1] > pk_battery.E_min
    /\ pk_battery.initial_soc_kwh > soc_plan[1]
    /\ soc_profile[1] = soc_plan[1]
    /\ import_profile[1] > PeakTargetAt(1)
    /\ import_profile[1] < pk_load[1] - pk_pv[1]

\* ---- compute_monthly_peaks and the planner as a state machine

\* the target lists of twelve entries
PlanTargetLists == { tl \in TargetLists : Len(tl) = 12 }

\* the arguments of the two calls: the series, the battery and the targets
InitPlan ==
    /\ plan_pc = "ready"
    /\ \E n \in 1..MaxLen, b \in Batteries, d \in {1, 4},
          tl \in PlanTargetLists :
          \E ld \in SeqsOfLen(LoadVals, n), p \in SeqsOfLen(PvVals, n),
             ms \in MonthLists(n) :
             plan_args = Some([load |-> ld, pv |-> p, months |-> ms,
                               dt_hours |-> d, battery |-> b,
                               target_peaks |-> tl])
    /\ baseline_peaks = None
    /\ soc_min_curve = None
    /\ SimOff /\ PeakOff /\ CostOff /\ RunOff /\ BattOff /\ RoiOff

\* PeakOptimizer.compute_monthly_peaks(load, pv)
ComputeMonthlyPeaks ==
    /\ plan_pc = "ready"
    /\ baseline_peaks' = Some(compute_monthly_peaks(plan_args[1].load,
                                                    plan_args[1].pv,
                                                    plan_args[1].months))
    /\ plan_pc' = "peaks"
    /\ UNCHANGED <<plan_args, soc_min_curve>>
    /\ UNCHANGED <<simVars, peakVars, costVars, runVars, battVars, roiVars>>

\* PeakShavingPlanner.plan_monthly_soc_targets(load, pv, battery,
\* baseline_peaks, target_peaks)
PlanMonthlySocTargets ==
    /\ plan_pc = "peaks"
    /\ soc_min_curve' = Some(plan_monthly_soc_targets(
                                 plan_args[1].load, plan_args[1].months,
                                 plan_args[1].dt_hours, plan_args[1].battery,
                                 baseline_peaks[1],
                                 plan_args[1].target_peaks))
    /\ plan_pc' = "planned"
    /\ UNCHANGED <<plan_args, baseline_peaks>>
    /\ UNCHANGED <<simVars, peakVars, costVars, runVars, battVars, roiVars>>

NextPlan ==
    \/ ComputeMonthlyPeaks
    \/ PlanMonthlySocTargets

SpecPlan == InitPlan /\ [][NextPlan]_vars

\* C27: compute_monthly_peaks returns 12 values; the value of a month is the
\* maximum over the month's steps of max(load[t] - pv[t], 0) / dt, a power in
\* kW for an interval of 1.0 h or of 0.25 h, it is never negative, and it is
\* 0 for a month without steps.
C27_MonthlyPeaksInKw ==
    plan_pc \in {"peaks", "planned"} =>
        LET a == plan_args[1]
            Kw(k) == (Max2(a.load[k] - a.pv[k], 0) * 4) \div a.dt_hours
            StepsOf(m) == {k \in 1..Len(a.load) : a.months[k] = m}
        IN  /\ Len(baseline_peaks[1]) = 12
            /\ \A m \in 1..12 :
                  /\ baseline_peaks[1][m] >= 0
                  /\ StepsOf(m) = {} => baseline_peaks[1][m] = 0
                  /\ StepsOf(m) # {} =>
                        /\ \E k \in StepsOf(m) : baseline_peaks[1][m] = Kw(k)
                        /\ \A k \in StepsOf(m) : baseline_peaks[1][m] >= Kw(k)

\* ---- CostEngine as a state machine

\* values of the profiles passed to compute_cost
ImportVals == {0, 3, 100}
ExportVals == {0, 40}

\* state after CostEngine.__init__
InitCost ==
    /\ cost_pc = "ready"
    /\ cfg \in {Some(c) : c \in TariffConfigs}
    /\ cost_args = None
    /\ cost_result = None
    /\ SimOff /\ PeakOff /\ RunOff /\ BattOff /\ RoiOff
    /\ PlanOff

\* a call of compute_cost on the engine; the call leaves the engine as it
\* was, so the state after one call stands for the state after any call
ComputeCost ==
    /\ cost_pc = "ready"
    /\ \E imp \in SeqsUpTo(ImportVals, MaxLen), exp \in SeqsUpTo(ExportVals, MaxLen),
          tariff_type \in TariffTypes,
          peak_kw_before \in {None, Some(10)},
          peak_kw_after \in {None, Some(6), Some(12)} :
          LET r == compute_cost(cfg[1], imp, exp, tariff_type,
                                peak_kw_before, peak_kw_after)
          IN  /\ cost_args' = Some([import_profile_kwh |-> imp,
                                    export_profile_kwh |-> exp,
                                    tariff_type |-> tariff_type,
                                    peak_kw_before |-> peak_kw_before,
                                    peak_kw_after |-> peak_kw_after])
              /\ cost_result' = IF r.raised = "" THEN Some(r) ELSE None
              /\ cost_pc' = IF r.raised = "" THEN "returned" ELSE "raised"
    /\ UNCHANGED cfg
    /\ UNCHANGED <<simVars, peakVars, runVars, battVars, roiVars,
                   planVars>>

NextCost == ComputeCost

SpecCost == InitCost /\ [][NextCost]_vars

\* C8: for the flat tariff without net metering and without peak arguments
\* compute_cost returns total_cost = sum(import) * p_enkel_imp
\* - sum(export) * p_enkel_exp + vastrecht_year
\* + inverter_power_kw * inverter_cost_per_kw + feed-in fee, and import_kwh
\* and export_kwh are the sums of the two profiles.
C8_FlatTariffTotal ==
    (/\ cost_pc \in {"returned", "raised"}
     /\ cost_args[1].tariff_type = "enkel"
     /\ ~ cfg[1].saldering
     /\ cost_args[1].peak_kw_before = None
     /\ cost_args[1].peak_kw_after = None) =>
        LET c == cfg[1]
            imp == Sum(cost_args[1].import_profile_kwh)
            exp == Sum(cost_args[1].export_profile_kwh)
            fee == 12 * c.feedin_monthly_cost
                   + (IF exp > c.feedin_free_kwh
                      THEN (exp - c.feedin_free_kwh) * c.feedin_price_after_free
                      ELSE 0)
        IN  /\ cost_pc = "returned"
            /\ cost_result[1].import_kwh = imp
            /\ cost_result[1].export_kwh = exp
            /\ cost_result[1].total_cost_eur =
                  imp * c.p_enkel_imp - exp * c.p_enkel_exp
                  + c.vastrecht_year
                  + c.inverter_power_kw * c.inverter_cost_per_kw + fee

\* the test's case: 100 kWh imported, 40 kWh exported, no feed-in fee:
\* 100 x 0.40 - 40 x 0.10 + 100 + 50 = 186 euro
C8_Witness ==
    /\ cost_pc = "returned"
    /\ cost_args[1].tariff_type = "enkel"
    /\ ~ cfg[1].saldering
    /\ cost_args[1].peak_kw_before = None /\ cost_args[1].peak_kw_after = None
    /\ cfg[1].feedin_monthly_cost = 0
    /\ cost_result[1].import_kwh = 100
    /\ cost_result[1].export_kwh = 40
    /\ cost_result[1].total_cost_eur = 18600

\* C9: compute_cost adds (peak_kw_after - peak_kw_before) * capacity_tariff_kw
\* to the total exactly when the country is "BE" and both peaks are supplied,
\* and adds 0 for the capacity tariff otherwise: the total is the sum of the
\* energy term, the feed-in fee, the inverter cost, the fixed charge and that
\* item.
C9_CapacityItem ==
    cost_pc = "returned" =>
        LET c == cfg[1]
            a == cost_args[1]
            imp == Sum(a.import_profile_kwh)
            exp == Sum(a.export_profile_kwh)
            item == IF /\ c.country = "BE"
                       /\ a.peak_kw_before # None
                       /\ a.peak_kw_after # None
                    THEN (a.peak_kw_after[1] - a.peak_kw_before[1])
                         * c.capacity_tariff_kw
                    ELSE 0
        IN  cost_result[1].total_cost_eur =
                EnergyNet(c, a.tariff_type, imp, exp)
                + FeedinCost(c, exp)
                + c.inverter_power_kw * c.inverter_cost_per_kw
                + c.vastrecht_year
                + item

\* the test's case: BE, peak 10 kW before and 6 kW after at 50 euro per kW:
\* the item is -200 euro
C9_Witness ==
    /\ cost_pc = "returned"
    /\ cfg[1].country = "BE"
    /\ cost_args[1].peak_kw_before = Some(10)
    /\ cost_args[1].peak_kw_after = Some(6)
    /\ (6 - 10) * cfg[1].capacity_tariff_kw = -20000
    /\ cost_result[1].total_cost_eur =
          compute_cost(cfg[1], cost_args[1].import_profile_kwh,
                       cost_args[1].export_profile_kwh,
                       cost_args[1].tariff_type, None, None).total_cost_eur
          - 20000

\* C10: with net metering on (cfg.saldering true) compute_cost for the flat
\* tariff prices the netted energy: energy cost = max(sum(import) -
\* sum(export), 0) * p_import + min(sum(import) - sum(export), 0) * p_export.
C10_NetMeteringFlat ==
    (/\ cost_pc = "returned"
     /\ cost_args[1].tariff_type = "enkel"
     /\ cfg[1].saldering
     /\ cost_args[1].peak_kw_before = None
     /\ cost_args[1].peak_kw_after = None) =>
        LET c == cfg[1]
            imp == Sum(cost_args[1].import_profile_kwh)
            exp == Sum(cost_args[1].export_profile_kwh)
        IN  cost_result[1].total_cost_eur =
                Max2(imp - exp, 0) * c.p_enkel_imp
                + Min2(imp - exp, 0) * c.p_enkel_exp
                + FeedinCost(c, exp)
                + c.inverter_power_kw * c.inverter_cost_per_kw
                + c.vastrecht_year

\* C21: for the flat tariff with zero import, total export X and feed-in
\* fees configured (export price 0.10) compute_cost returns total_cost =
\* vastrecht_year + inverter_power_kw * inverter_cost_per_kw
\* + 12 * feedin_monthly_cost
\* + max(0, X - feedin_free_kwh) * feedin_price_after_free.
C21_FeedinOnlyTotal ==
    (/\ cost_pc = "returned"
     /\ cost_args[1].tariff_type = "enkel"
     /\ cost_args[1].peak_kw_before = None
     /\ cost_args[1].peak_kw_after = None
     /\ Sum(cost_args[1].import_profile_kwh) = 0
     /\ cfg[1].feedin_monthly_cost > 0
     /\ cfg[1].p_enkel_exp = 10) =>
        cost_result[1].total_cost_eur =
            cfg[1].vastrecht_year
            + cfg[1].inverter_power_kw * cfg[1].inverter_cost_per_kw
            + 12 * cfg[1].feedin_monthly_cost
            + Max2(0, Sum(cost_args[1].export_profile_kwh)
                      - cfg[1].feedin_free_kwh)
              * cfg[1].feedin_price_after_free

\* C11: for the dynamic tariff with a price series compute_cost prices the
\* import per step: the import cost is the sum over the steps t of
\* import[t] * price[t], a step beyond the end of the price series taking the
\* last price, and the export is priced at the flat rate p_export_dyn.
C11_DynamicPerStep ==
    (/\ cost_pc = "returned"
     /\ cost_args[1].tariff_type = "dynamisch"
     /\ cfg[1].dynamic_prices # None) =>
        LET c == cfg[1]
            a == cost_args[1]
            imp == a.import_profile_kwh
            ps == c.dynamic_prices
            exp == Sum(a.export_profile_kwh)
        IN  cost_result[1].total_cost_eur =
                Sum([t \in 1..Len(imp) |-> imp[t] * ps[Min2(t, Len(ps))]])
                - exp * c.p_export_dyn
                + FeedinCost(c, exp)
                + c.inverter_power_kw * c.inverter_cost_per_kw
                + CapacityTariff(c, a.peak_kw_before, a.peak_kw_after)
                + c.vastrecht_year

\* C12: for the day/night tariff compute_cost prices the import per step:
\* a step inside the daily window 07:00-23:00 at p_dag, any other step at
\* p_nacht.  The profiles here start at midnight and are at most a few
\* steps long, so with hourly and with quarter-hourly steps every step of
\* them lies in the night and the import cost is sum(import) * p_nacht.
C12_DayNightPerStep ==
    (/\ cost_pc = "returned"
     /\ cost_args[1].tariff_type = "dag_nacht"
     /\ Len(cost_args[1].import_profile_kwh) <= 7) =>
        LET c == cfg[1]
            a == cost_args[1]
            exp == Sum(a.export_profile_kwh)
        IN  cost_result[1].total_cost_eur =
                Sum(a.import_profile_kwh) * c.p_nacht
                - exp * c.p_exp_dn
                + FeedinCost(c, exp)
                + c.inverter_power_kw * c.inverter_cost_per_kw
                + CapacityTariff(c, a.peak_kw_before, a.peak_kw_after)
                + c.vastrecht_year

\* C13: compute_cost called with a tariff_type other than "enkel",
\* "dag_nacht" or "dynamisch" raises an error and returns no ScenarioResult,
\* whatever the profiles and the configuration are.
C13_UnknownTariffRaises ==
    (/\ cost_pc # "ready"
     /\ cost_args[1].tariff_type \notin {"enkel", "dag_nacht", "dynamisch"}) =>
        /\ cost_pc = "raised"
        /\ cost_result = None

\* compute_cost was called with the tariff type "piek", a non-empty import
\* and both peaks on a BE configuration, and raised
C13_Witness ==
    /\ cost_pc = "raised"
    /\ cost_args[1].tariff_type = "piek"
    /\ Sum(cost_args[1].import_profile_kwh) > 0
    /\ cfg[1].country = "BE"
    /\ cost_args[1].peak_kw_before # None /\ cost_args[1].peak_kw_after # None

\* ---- BatteryEnginePro3.compute and ScenarioRunner.run as a state machine

MaxCalls == 2

\* values of the request's series; an empty list is among the series
ReqLoadVals == {2, 6}
ReqPvVals == {0, 8}

\* battery fields E, P, DoD, eta_rt, battery_cost, battery_degradation
ReqBatteries == { <<20, 4, 5, 25, 1000, 2>>, <<0, 0, 9, 90, 0, 0>> }

\* current_tariff, country and prices_dyn of the requests
ReqTariffs ==
    { <<"enkel", "NL", None>>,
      <<"dynamisch", "NL", <<20, 60>> >>,
      <<"dynamisch", "BE", None>>,
      <<"piek", "BE", <<20, 60>> >> }

\* the requests: ComputeV3Input with the prices of the test suite
InputDatas ==
    { [load_kwh |-> l, pv_kwh |-> p, prices_dyn |-> rt[3],
       p_enkel_imp |-> 40, p_enkel_exp |-> 10,
       p_dag |-> 50, p_nacht |-> 30, p_exp_dn |-> 8, p_export_dyn |-> 12,
       E |-> b[1], P |-> b[2], DoD |-> b[3], eta_rt |-> b[4],
       vastrecht |-> 10000,
       battery_cost |-> b[5], battery_degradation |-> b[6],
       feedin_monthly_cost |-> 0, feedin_cost_per_kwh |-> 0,
       feedin_free_kwh |-> 0, feedin_price_after_free |-> 0,
       inverter_power_kw |-> 5, inverter_cost_per_kw_year |-> 1000,
       capacity_tariff_kw_year |-> IF rt[2] = "BE" THEN 5000 ELSE 0,
       current_tariff |-> rt[1], country |-> rt[2]] :
         l \in SeqsUpTo(ReqLoadVals, MaxLen), p \in SeqsUpTo(ReqPvVals, MaxLen),
         b \in ReqBatteries,
         rt \in ReqTariffs }

\* a request has arrived
InitRun ==
    /\ run_pc = "start"
    /\ input_data \in InputDatas
    /\ runner = None
    /\ run_outs = <<>>
    /\ run_locals = None
    /\ compute_out = <<>>
    /\ SimOff /\ PeakOff /\ CostOff /\ BattOff /\ RoiOff
    /\ PlanOff

\* BatteryEnginePro3.compute(input_data): the validation, the construction
\* of the series and configurations, and runner.run() on them
EngineCompute ==
    /\ run_pc \in {"start", "computed"}
    /\ Len(compute_out) < MaxCalls
    /\ IF EngineRejects(input_data)
       THEN /\ compute_out' = Append(compute_out,
                                     [error |-> "LOAD_OR_PV_EMPTY",
                                      result |-> None])
            /\ run_locals' = None
       ELSE \E loc \in {RunLocals(EngineRunner(input_data))} :
                /\ compute_out' = Append(compute_out,
                                         [error |-> "", result |-> Some(loc.out)])
                /\ run_locals' = Some([A1_sim |-> loc.A1_sim, sims |-> loc.sims])
    /\ run_pc' = "computed"
    /\ UNCHANGED <<input_data, runner, run_outs>>
    /\ UNCHANGED <<simVars, peakVars, costVars, battVars, roiVars,
                   planVars>>

\* ScenarioRunner(load, pv, tariff_cfg, batt_cfg) on objects built as the
\* engine builds them; the caller may pass no battery and either value of
\* the saldering flag
NewScenarioRunner ==
    /\ run_pc = "start"
    /\ ~ EngineRejects(input_data)
    /\ \E sal \in BOOLEAN, with_battery \in BOOLEAN :
          LET r == EngineRunner(input_data)
          IN  runner' = Some([r EXCEPT !.tariff_cfg.saldering = sal,
                                       !.batt_cfg = IF with_battery THEN @
                                                    ELSE None])
    /\ run_pc' = "runner"
    /\ UNCHANGED <<input_data, run_outs, run_locals, compute_out>>
    /\ UNCHANGED <<simVars, peakVars, costVars, battVars, roiVars,
                   planVars>>

\* runner.run() on the runner object
ScenarioRun ==
    /\ run_pc = "runner"
    /\ Len(run_outs) < MaxCalls
    /\ \E loc \in {RunLocals(runner[1])} :
          /\ run_outs' = Append(run_outs, loc.out)
          /\ run_locals' = Some([A1_sim |-> loc.A1_sim, sims |-> loc.sims])
    /\ runner' = Some(RunEffect(runner[1]))
    /\ UNCHANGED <<run_pc, input_data, compute_out>>
    /\ UNCHANGED <<simVars, peakVars, costVars, battVars, roiVars,
                   planVars>>

NextRun ==
    \/ EngineCompute
    \/ NewScenarioRunner
    \/ ScenarioRun

SpecRun == InitRun /\ [][NextRun]_vars

C6_RunLeavesInputsUnchanged ==
    [][(runner # None /\ Len(run_outs') > Len(run_outs)) => runner' = runner]_vars

\* C7: calls with identical inputs return identical results: every call of
\* run() on the same runner objects returns what the first call returned,
\* and every call of compute on the same request returns the same.
C7_Deterministic ==
    /\ \A a, b \in 1..Len(run_outs) : run_outs[a] = run_outs[b]
    /\ \A a, b \in 1..Len(compute_out) : compute_out[a] = compute_out[b]

\* run() was called twice on a runner with a battery that changed the
\* flows, and the first call has written the tariff configuration
C7_Witness ==
    /\ Len(run_outs) >= 2
    /\ runner[1].batt_cfg # None
    /\ runner[1].tariff_cfg.saldering = FALSE
    /\ runner[1].tariff_cfg.dynamic_prices = None
    /\ run_outs[2].C1["enkel"] # run_outs[2].B1["enkel"]
    /\ run_outs[2].B1["dynamisch"].import_kwh > 0

\* C14: run with a current_tariff that is none of the recognised variants
\* fails before any simulation step and returns no bundle: no result of
\* another tariff stands in for scenario A1.
C14_UnknownTariffFails ==
    (/\ runner # None
     /\ runner[1].tariff_cfg.current_tariff \notin Tariffs3) =>
        /\ run_outs = <<>>
        /\ run_locals = None

\* C19: every result of run carries the monthly peaks before and after the
\* battery as arrays of exactly 12 entries, in both jurisdictions and with or
\* without a battery; outside the peak jurisdiction (BE) the entries are 0.
C19_TwelveMonthlyPeaks ==
    \A n \in 1..Len(run_outs) :
        /\ Len(run_outs[n].peaks.monthly_before) = 12
        /\ Len(run_outs[n].peaks.monthly_after) = 12
        /\ runner[1].tariff_cfg.country # "BE" =>
               /\ \A m \in 1..12 : run_outs[n].peaks.monthly_before[m] = 0
               /\ \A m \in 1..12 : run_outs[n].peaks.monthly_after[m] = 0

\* C20: a runner constructed without a battery runs to a result in which the
\* C1 result of every tariff is the B1 result of that tariff, per year and
\* per month, and the return on investment of every tariff has a null
\* payback and 0 percent.
C20_NoBatteryPassThrough ==
    (runner # None /\ runner[1].batt_cfg = None) =>
        \A n \in 1..Len(run_outs) : \A t \in Tariffs3 :
            /\ run_outs[n].C1[t] = run_outs[n].B1[t]
            /\ run_outs[n].C1_monthly[t] = run_outs[n].B1_monthly[t]
            /\ run_outs[n].roi_per_tariff[t].payback_years = None
            /\ run_outs[n].roi_per_tariff[t].roi_percent = 0

\* a runner without a battery has returned a result with a cost to pay
C20_Witness ==
    /\ runner # None
    /\ runner[1].batt_cfg = None
    /\ Len(run_outs) >= 1
    /\ run_locals # None
    /\ run_outs[1].B1["enkel"].total_cost_eur > 0
    /\ run_outs[1].C1["enkel"].import_kwh > 0

----------------------------------------------------------------------------
\* The whole system: any one of the components in use

Init ==
    InitSim \/ InitPeak \/ InitCost \/ InitRun \/ InitBatt \/ InitRoi
    \/ InitPlan

Next ==
    NextSim \/ NextPeak \/ NextCost \/ NextRun \/ NextBatt \/ NextRoi
    \/ NextPlan

Spec == Init /\ [][Next]_vars

====
